---- MODULE Spec2Model ----
(***************************************************************************)
(* nervaluate: SemEval-2013 Task 9.1 scoring of named-entity spans.         *)
(* The module models src/nervaluate/evaluate.py: the Evaluator object       *)
(* (its inputs and running totals), one call of Evaluator.evaluate(), and   *)
(* the pure functions it calls (compute_metrics, compute_actual_possible,   *)
(* compute_precision_recall, compute_precision_recall_wrapper,              *)
(* clean_entities).  Floats are modelled as exact fractions.  The loaders   *)
(* other than "default" live in utils and are outside the model: the        *)
(* Evaluator is constructed with loader = "default".                        *)
(***************************************************************************)
EXTENDS Integers, Sequences, FiniteSets, TLC

\* ------------------------------------------------------------------ bounds
\* Token positions are 0..MaxPos.
MaxPos == 1
\* Largest number of documents on either side of the corpus.
MaxDocs == 2
\* Largest number of spans on one side (true or predicted) of the corpus, all
\* documents together.
MaxSide == 2
\* Largest number of evaluate() calls on one Evaluator.
MaxCalls == 2

\* ------------------------------------------------------------ input spaces
Labels == {"A", "B"}

\* The tag lists an Evaluator is constructed with: one tag (the other label is
\* then outside the scored tags), two tags, and a list that repeats a tag.
TagLists == {<<"A">>, <<"A", "B">>, <<"A", "A">>}

Spans == {[start |-> s, end |-> e, label |-> l] :
             <<s, e, l>> \in {x \in (0..MaxPos) \X (0..MaxPos) \X Labels : x[1] <= x[2]}}

RECURSIVE SeqsOfLen(_, _)
SeqsOfLen(S, n) ==
    IF n = 0 THEN {<<>>}
    ELSE {Append(c[1], c[2]) : c \in SeqsOfLen(S, n - 1) \X S}

\* ListsOfLen[l]: the span lists of exactly l spans.
ListsOfLen == [l \in 0..MaxSide |-> SeqsOfLen(Spans, l)]

RECURSIVE SideOf(_, _)
\* The sequences of n span lists that hold exactly k spans together.
SideOf(n, k) ==
    IF n = 0 THEN (IF k = 0 THEN {<<>>} ELSE {})
    ELSE UNION {LET rests == SideOf(n - 1, k - l)
                IN  {<<c[1]>> \o c[2] : c \in ListsOfLen[l] \X rests} :
                   l \in 0..k}

\* Sides[n]: one side of a corpus of n documents, at most MaxSide spans.
Sides == [n \in 0..MaxDocs |-> UNION {SideOf(n, k) : k \in 0..MaxSide}]

\* ------------------------------------------------------------------ floats
\* A float is the exact fraction num/den with den > 0 (not reduced: two
\* fractions are the same float when FracEq holds).
Frac(n, d) == [num |-> n, den |-> d]
Zero == Frac(0, 1)
One == Frac(1, 1)
Half == Frac(1, 2)
FracOfInt(n) == Frac(n, 1)
FracAdd(x, y) == Frac(x.num * y.den + y.num * x.den, x.den * y.den)
FracMul(x, y) == Frac(x.num * y.num, x.den * y.den)
FracDiv(x, y) == Frac(x.num * y.den, x.den * y.num)
FracEq(x, y) == x.num * y.den = y.num * x.den

\* ----------------------------------------------------------------- records
Schemes == {"strict", "ent_type", "partial", "exact"}
Counters == {"correct", "incorrect", "partial", "missed", "spurious"}

\* Evaluator.__init__: self.metrics_results
metrics_results ==
    [correct |-> 0, incorrect |-> 0, partial |-> 0, missed |-> 0, spurious |-> 0,
     possible |-> 0, actual |-> 0, precision |-> Zero, recall |-> Zero, f1 |-> Zero]

\* Evaluator.__init__: self.results
results_init == [s \in Schemes |-> metrics_results]

TagSet(tgs) == {tgs[i] : i \in DOMAIN tgs}

\* Evaluator.__init__: self.evaluation_agg_entities_type
agg_init(tgs) == [e \in TagSet(tgs) |-> results_init]

\* compute_metrics: eval_metrics (no possible/actual yet)
eval_metrics ==
    [correct |-> 0, incorrect |-> 0, partial |-> 0, missed |-> 0, spurious |-> 0,
     precision |-> Zero, recall |-> Zero, f1 |-> Zero]

\* compute_metrics: evaluation
evaluation_init == [s \in Schemes |-> eval_metrics]

InSeq(x, q) == \E i \in DOMAIN q : q[i] = x

\* ------------------------------------------------------- clean_entities
clean_entities(ent) == [start |-> ent.start, end |-> ent.end, label |-> ent.label]

\* compute_metrics, line 144: the true spans whose label is in tags, cleaned.
true_subset(ents, tgs) ==
    LET kept == SelectSeq(ents, LAMBDA ent : ent.label \in TagSet(tgs))
    IN  [i \in DOMAIN kept |-> clean_entities(kept[i])]

\* Line 145 without the tag filter on the predicted spans.
pred_subset_m(ents, tgs) == [i \in DOMAIN ents |-> clean_entities(ents[i])]

\* compute_metrics, line 145: the predicted spans whose label is in tags, cleaned.
pred_subset(ents, tgs) ==
    LET kept == SelectSeq(ents, LAMBDA ent : ent.label \in TagSet(tgs))
    IN  [i \in DOMAIN kept |-> clean_entities(kept[i])]

\* list.sort(key=...) is stable: an element goes after every element whose key
\* is not greater than its own.
StableInsert(sorted, x, k) ==
    LET n == Cardinality({i \in DOMAIN sorted : sorted[i][k] <= x[k]})
    IN  SubSeq(sorted, 1, n) \o <<x>> \o SubSeq(sorted, n + 1, Len(sorted))

RECURSIVE SortFrom(_, _, _, _)
SortFrom(q, i, k, acc) ==
    IF i > Len(q) THEN acc ELSE SortFrom(q, i + 1, k, StableInsert(acc, q[i], k))

\* compute_metrics, line 148: true_named_entities.sort(key=start)
sort_true(ents) == SortFrom(ents, 1, "start", <<>>)

\* compute_metrics, line 149: pred_named_entities.sort(key=end)
sort_pred(ents) == SortFrom(ents, 1, "end", <<>>)

\* utils.find_overlap: the positions the two inclusive ranges share.
find_overlap(true_range, pred_range) == true_range \cap pred_range

\* range(ent["start"], ent["end"] + 1)
range_of(ent) == ent.start .. ent.end

\* ------------------------------------------------------- scenario updates
\* st is the loop state of compute_metrics:
\*   evaluation, evaluation_agg_entities_type,
\*   true_which_overlapped_with_pred, found_overlap.
Bump(st, label, scheme, metric) ==
    [st EXCEPT !.evaluation[scheme][metric] = @ + 1,
               !.evaluation_agg_entities_type[label][scheme][metric] = @ + 1]

Bump4(st, label, m_strict, m_ent_type, m_partial, m_exact) ==
    Bump(Bump(Bump(Bump(st, label, "strict", m_strict),
                   label, "ent_type", m_ent_type),
              label, "partial", m_partial),
         label, "exact", m_exact)

MarkOverlapped(st, ent) ==
    [st EXCEPT !.true_which_overlapped_with_pred = Append(@, ent)]

\* Scenario I (lines 160-171): exact match, attributed to the label of pred.
scenario_I(st, pred_ent) ==
    Bump4(MarkOverlapped(st, pred_ent), pred_ent.label,
          "correct", "correct", "correct", "correct")

\* Scenario IV (lines 185-200): same offsets, wrong type; attributed to the label
\* of true.
scenario_IV(st, true_ent) ==
    [MarkOverlapped(Bump4(st, true_ent.label, "incorrect", "incorrect", "correct", "correct"),
                    true_ent)
        EXCEPT !.found_overlap = TRUE]

\* Scenario V (lines 210-223): overlap, same type.
scenario_V(st, true_ent) ==
    [Bump4(st, true_ent.label, "incorrect", "correct", "partial", "incorrect")
        EXCEPT !.found_overlap = TRUE]

\* Scenario VI with the ent_type count of scenario V.
scenario_VI_m(st, true_ent) ==
    [Bump4(st, true_ent.label, "incorrect", "correct", "partial", "incorrect")
        EXCEPT !.found_overlap = TRUE]

\* Scenario VI (lines 225-245): overlap, different type.
scenario_VI(st, true_ent) ==
    [Bump4(st, true_ent.label, "incorrect", "incorrect", "partial", "incorrect")
        EXCEPT !.found_overlap = TRUE]

\* Lines 259-269 taking the fallback branch for every prediction.
spurious_tags_m(pred_ent, tgs) == tgs

\* Lines 259-269: the labels a spurious prediction is attributed to.
spurious_tags(pred_ent, tgs) ==
    IF pred_ent.label \in TagSet(tgs) THEN <<pred_ent.label>> ELSE tgs

RECURSIVE BumpSpuriousAgg(_, _, _)
\* Lines 271-275: one increment per element of spurious_tags, per scheme.
BumpSpuriousAgg(agg, lbls, i) ==
    IF i > Len(lbls) THEN agg
    ELSE BumpSpuriousAgg(
             [agg EXCEPT ![lbls[i]] = [s \in Schemes |-> [@[s] EXCEPT !.spurious = @ + 1]]],
             lbls, i + 1)

\* Scenario II that forgets the overall count of the ent_type scheme.
scenario_II_m(st, pred_ent, tgs) ==
    [st EXCEPT !.evaluation =
                   [s \in Schemes |->
                       IF s = "ent_type" THEN @[s] ELSE [@[s] EXCEPT !.spurious = @ + 1]],
               !.evaluation_agg_entities_type =
                   BumpSpuriousAgg(@, spurious_tags(pred_ent, tgs), 1)]

\* Scenario II (lines 248-275): spurious prediction.
scenario_II(st, pred_ent, tgs) ==
    [st EXCEPT !.evaluation = [s \in Schemes |-> [@[s] EXCEPT !.spurious = @ + 1]],
               !.evaluation_agg_entities_type =
                   BumpSpuriousAgg(@, spurious_tags(pred_ent, tgs), 1)]

\* Scenario III without the test for a marked true span.
scenario_III_m(st, true_ent) ==
    Bump4(st, true_ent.label, "missed", "missed", "missed", "missed")

\* Scenario III (lines 278-292): a true span that was never marked.
scenario_III(st, true_ent) ==
    IF InSeq(true_ent, st.true_which_overlapped_with_pred) THEN st
    ELSE Bump4(st, true_ent.label, "missed", "missed", "missed", "missed")

RECURSIVE scan_true(_, _, _, _)
\* Lines 175-245: the inner loop over the sorted true spans, from index i.
scan_true(st, pred_ent, trues, i) ==
    IF i > Len(trues) THEN st
    ELSE LET true_ent == trues[i] IN
         IF pred_ent.end < true_ent.start THEN st
         ELSE IF /\ true_ent.start = pred_ent.start
                 /\ pred_ent.end = true_ent.end
                 /\ true_ent.label # pred_ent.label
              THEN scenario_IV(st, true_ent)
         ELSE IF /\ find_overlap(range_of(true_ent), range_of(pred_ent)) # {}
                 /\ ~InSeq(true_ent, st.true_which_overlapped_with_pred)
              THEN LET marked == MarkOverlapped(st, true_ent) IN
                   scan_true(IF pred_ent.label = true_ent.label
                                THEN scenario_V(marked, true_ent)
                                ELSE scenario_VI(marked, true_ent),
                             pred_ent, trues, i + 1)
         ELSE scan_true(st, pred_ent, trues, i + 1)

\* Lines 153-275: the body of the loop over the predicted spans.
score_pred(st, pred_ent, trues, tgs) ==
    IF InSeq(pred_ent, trues)
    THEN scenario_I([st EXCEPT !.found_overlap = FALSE], pred_ent)
    ELSE LET scanned == scan_true([st EXCEPT !.found_overlap = FALSE], pred_ent, trues, 1)
         IN  IF ~scanned.found_overlap THEN scenario_II(scanned, pred_ent, tgs) ELSE scanned

RECURSIVE score_preds(_, _, _, _, _)
\* Line 152: for pred in pred_named_entities
score_preds(st, preds, j, trues, tgs) ==
    IF j > Len(preds) THEN st
    ELSE score_preds(score_pred(st, preds[j], trues, tgs), preds, j + 1, trues, tgs)

RECURSIVE score_missed(_, _, _)
\* Line 278: for true in true_named_entities
score_missed(st, trues, i) ==
    IF i > Len(trues) THEN st
    ELSE score_missed(scenario_III(st, trues[i]), trues, i + 1)

\* compute_actual_possible with missed left out of possible.
compute_actual_possible_m(r) ==
    [correct |-> r.correct, incorrect |-> r.incorrect, partial |-> r.partial,
     missed |-> r.missed, spurious |-> r.spurious,
     precision |-> r.precision, recall |-> r.recall, f1 |-> r.f1,
     actual |-> r.correct + r.incorrect + r.partial + r.spurious,
     possible |-> r.correct + r.incorrect + r.partial]

\* compute_actual_possible (lines 311-337)
compute_actual_possible(r) ==
    [correct |-> r.correct, incorrect |-> r.incorrect, partial |-> r.partial,
     missed |-> r.missed, spurious |-> r.spurious,
     precision |-> r.precision, recall |-> r.recall, f1 |-> r.f1,
     actual |-> r.correct + r.incorrect + r.partial + r.spurious,
     possible |-> r.correct + r.incorrect + r.partial + r.missed]

\* compute_metrics (lines 93-308): the pair (evaluation,
\* evaluation_agg_entities_type) of one document.
compute_metrics(true_named_entities, pred_named_entities, tgs) ==
    LET trues == sort_true(true_subset(true_named_entities, tgs))
        preds == sort_pred(pred_subset(pred_named_entities, tgs))
        st0 == [evaluation |-> evaluation_init,
                evaluation_agg_entities_type |-> [e \in TagSet(tgs) |-> evaluation_init],
                true_which_overlapped_with_pred |-> <<>>,
                found_overlap |-> FALSE]
        st1 == score_missed(score_preds(st0, preds, 1, trues, tgs), trues, 1)
    IN  [evaluation |-> [s \in Schemes |-> compute_actual_possible(st1.evaluation[s])],
         evaluation_agg_entities_type |->
             [e \in TagSet(tgs) |->
                 [s \in Schemes |->
                     compute_actual_possible(st1.evaluation_agg_entities_type[e][s])]]]

\* compute_precision_recall (lines 340-367)
compute_precision_recall(r, partial_or_type) ==
    LET credit == IF partial_or_type
                  THEN FracAdd(FracOfInt(r.correct), FracMul(Half, FracOfInt(r.partial)))
                  ELSE FracOfInt(r.correct)
        precision == IF r.actual > 0 THEN FracDiv(credit, FracOfInt(r.actual)) ELSE Zero
        recall == IF r.possible > 0 THEN FracDiv(credit, FracOfInt(r.possible)) ELSE Zero
        sum == FracAdd(precision, recall)
    IN  [r EXCEPT !.precision = precision,
                  !.recall = recall,
                  !.f1 = IF sum.num > 0
                         THEN FracDiv(FracMul(FracOfInt(2), FracMul(precision, recall)), sum)
                         ELSE Zero]

\* compute_precision_recall_wrapper (lines 370-382)
compute_precision_recall_wrapper(res) ==
    [s \in Schemes |-> compute_precision_recall(res[s], s \in {"partial", "ent_type"})]

\* Lines 69-71 and 78-82: metric-wise += of one document's scheme results.
accumulate(total, tmp) ==
    [s \in Schemes |->
        [correct |-> total[s].correct + tmp[s].correct,
         incorrect |-> total[s].incorrect + tmp[s].incorrect,
         partial |-> total[s].partial + tmp[s].partial,
         missed |-> total[s].missed + tmp[s].missed,
         spurious |-> total[s].spurious + tmp[s].spurious,
         possible |-> total[s].possible + tmp[s].possible,
         actual |-> total[s].actual + tmp[s].actual,
         precision |-> FracAdd(total[s].precision, tmp[s].precision),
         recall |-> FracAdd(total[s].recall, tmp[s].recall),
         f1 |-> FracAdd(total[s].f1, tmp[s].f1)]]

RECURSIVE aggregate_by_label(_, _, _, _)
\* Lines 77-87: for label in self.tags, accumulate and recompute.
aggregate_by_label(agg, tmp_agg, tgs, i) ==
    IF i > Len(tgs) THEN agg
    ELSE aggregate_by_label(
             [agg EXCEPT ![tgs[i]] =
                 compute_precision_recall_wrapper(accumulate(@, tmp_agg[tgs[i]]))],
             tmp_agg, tgs, i + 1)

\* ------------------------------------------------------------ the Evaluator
VARIABLES
    true,                           \* self.true: one span list per document
    pred,                           \* self.pred: one span list per document
    tags,                           \* self.tags
    results,                        \* self.results
    evaluation_agg_entities_type,   \* self.evaluation_agg_entities_type
    pc,                             \* "constructed", "loop", "returned", "raised"
    idx,                            \* documents consumed from zip(self.true, self.pred)
    tmp_results,                    \* tmp_results of the last document (<<>> before)
    tmp_agg_results,                \* tmp_agg_results of the last document (<<>> before)
    returned,                       \* <<>>, or the pair the last evaluate() returned
    calls                           \* evaluate() calls made on this Evaluator

vars == <<true, pred, tags, results, evaluation_agg_entities_type, pc, idx,
          tmp_results, tmp_agg_results, returned, calls>>

\* Evaluator.__init__ (lines 9-50), loader = "default".
Init ==
    /\ tags \in TagLists
    /\ \E n \in 0..MaxDocs, m \in 0..MaxDocs :
          /\ true \in Sides[n]
          /\ pred \in Sides[m]
    /\ results = results_init
    /\ evaluation_agg_entities_type = agg_init(tags)
    /\ pc = "constructed"
    /\ idx = 0
    /\ tmp_results = <<>>
    /\ tmp_agg_results = <<>>
    /\ returned = <<>>
    /\ calls = 0

\* evaluate() with the length check placed after the first document of
\* zip(self.true, self.pred) was scored.
evaluate_enter_m ==
    /\ pc = "constructed"
    /\ calls' = calls + 1
    /\ IF Len(true) # Len(pred) /\ Len(true) > 0 /\ Len(pred) > 0
       THEN LET tmp == compute_metrics(true[1], pred[1], tags) IN
            /\ pc' = "raised"
            /\ idx' = 1
            /\ tmp_results' = tmp.evaluation
            /\ tmp_agg_results' = tmp.evaluation_agg_entities_type
            /\ results' = compute_precision_recall_wrapper(accumulate(results, tmp.evaluation))
            /\ evaluation_agg_entities_type' =
                   aggregate_by_label(evaluation_agg_entities_type,
                                      tmp.evaluation_agg_entities_type, tags, 1)
            /\ UNCHANGED <<true, pred, tags, returned>>
       ELSE /\ pc' = IF Len(true) # Len(pred) THEN "raised" ELSE "loop"
            /\ UNCHANGED <<true, pred, tags, results, evaluation_agg_entities_type, idx,
                           tmp_results, tmp_agg_results, returned>>

\* evaluate(), lines 52-61: the length check before the loop.
evaluate_enter ==
    /\ pc = "constructed"
    /\ calls' = calls + 1
    /\ pc' = IF Len(true) # Len(pred) THEN "raised" ELSE "loop"
    /\ UNCHANGED <<true, pred, tags, results, evaluation_agg_entities_type, idx,
                   tmp_results, tmp_agg_results, returned>>

\* evaluate(), lines 63-87: one iteration of the loop over the documents.
score_document ==
    /\ pc = "loop"
    /\ idx < Len(true)
    /\ LET tmp == compute_metrics(true[idx + 1], pred[idx + 1], tags) IN
          /\ tmp_results' = tmp.evaluation
          /\ tmp_agg_results' = tmp.evaluation_agg_entities_type
          /\ results' = compute_precision_recall_wrapper(accumulate(results, tmp.evaluation))
          /\ evaluation_agg_entities_type' =
                 aggregate_by_label(evaluation_agg_entities_type,
                                    tmp.evaluation_agg_entities_type, tags, 1)
    /\ idx' = idx + 1
    /\ UNCHANGED <<true, pred, tags, pc, returned, calls>>

\* evaluate(), line 89: return self.results, self.evaluation_agg_entities_type
evaluate_return ==
    /\ pc = "loop"
    /\ idx = Len(true)
    /\ pc' = "returned"
    /\ returned' = <<results, evaluation_agg_entities_type>>
    /\ UNCHANGED <<true, pred, tags, results, evaluation_agg_entities_type, idx,
                   tmp_results, tmp_agg_results, calls>>

Next == evaluate_enter \/ score_document \/ evaluate_return

\* One evaluate() call on a newly constructed Evaluator.
Spec == Init /\ [][Next]_vars

\* evaluate(), lines 52-61, called again on the Evaluator after a call
\* returned: self.true, self.pred, self.results and
\* self.evaluation_agg_entities_type are the fields the last call left, and
\* the loop starts a new zip(self.true, self.pred).
evaluate_again ==
    /\ pc = "returned"
    /\ calls < MaxCalls
    /\ calls' = calls + 1
    /\ pc' = IF Len(true) # Len(pred) THEN "raised" ELSE "loop"
    /\ idx' = 0
    /\ UNCHANGED <<true, pred, tags, results, evaluation_agg_entities_type,
                   tmp_results, tmp_agg_results, returned>>

NextRecall == evaluate_enter \/ score_document \/ evaluate_return \/ evaluate_again

\* Up to MaxCalls evaluate() calls on one Evaluator.
SpecRecall == Init /\ [][NextRecall]_vars

\* ------------------------------------------------------------------ claims
\* The document the loop scored last, and its spans with a scored label.
Scored == idx >= 1
true_doc == true[idx]
pred_doc == pred[idx]
InTags(ents) == SelectSeq(ents, LAMBDA ent : ent.label \in TagSet(tags))
AllInTags(ents) == \A i \in DOMAIN ents : ents[i].label \in TagSet(tags)

Balanced(r) ==
    /\ r.possible = r.correct + r.incorrect + r.partial + r.missed
    /\ r.actual = r.correct + r.incorrect + r.partial + r.spurious

\* C1: every Metrics Record evaluate() returns (the four schemes, overall and
\* per label) has possible = correct + incorrect + partial + missed and
\* actual = correct + incorrect + partial + spurious.
C1_PossibleActual ==
    pc = "returned" =>
        /\ \A s \in Schemes : Balanced(returned[1][s])
        /\ \A e \in DOMAIN returned[2] : \A s \in Schemes : Balanced(returned[2][e][s])

\* Two documents were scored, and the totals hold counts of every kind of span.
C1_Witness ==
    /\ pc = "returned"
    /\ idx = 2
    /\ returned[1]["strict"].possible = 2
    /\ returned[1]["strict"].actual = 2
    /\ returned[1]["strict"].missed = 1
    /\ returned[1]["strict"].spurious = 1
    /\ \E e \in DOMAIN returned[2] : returned[2][e]["partial"].partial = 1

Count(q, x) == Cardinality({i \in DOMAIN q : q[i] = x})
SameMultiset(a, b) ==
    /\ Len(a) = Len(b)
    /\ \A i \in DOMAIN a : Count(a, a[i]) = Count(b, a[i])

RECURSIVE TotalSpans(_, _)
TotalSpans(docs, i) == IF i > Len(docs) THEN 0 ELSE Len(docs[i]) + TotalSpans(docs, i + 1)

PredEqualsTrue ==
    /\ Len(true) = Len(pred)
    /\ \A i \in DOMAIN true :
          /\ SameMultiset(true[i], pred[i])
          /\ AllInTags(true[i])

\* C2: when in every document the predicted spans are the same multiset as the
\* true spans (labels in tags), evaluate() returns in every scheme of the overall
\* result correct = number of true spans, no incorrect, partial, missed or
\* spurious, and precision = recall = f1 = 1 when there is a span.
C2_IdenticalIsPerfect ==
    (pc = "returned" /\ PredEqualsTrue) =>
        \A s \in Schemes :
            /\ returned[1][s].correct = TotalSpans(true, 1)
            /\ returned[1][s].incorrect = 0
            /\ returned[1][s].partial = 0
            /\ returned[1][s].missed = 0
            /\ returned[1][s].spurious = 0
            /\ TotalSpans(true, 1) > 0 =>
                  /\ FracEq(returned[1][s].precision, One)
                  /\ FracEq(returned[1][s].recall, One)
                  /\ FracEq(returned[1][s].f1, One)

\* A document whose two different spans are listed in a different order on the
\* two sides.
C2_Witness ==
    /\ pc = "returned"
    /\ PredEqualsTrue
    /\ Len(true) = 1
    /\ Len(true[1]) = 2
    /\ true[1] # pred[1]

OnlyCounter(r, c, n) ==
    \A d \in Counters : r[d] = IF d = c THEN n ELSE 0

\* C3: in a document whose spans all have a label in tags, an empty predicted
\* list with N true spans gives missed = N and nothing else in every scheme, so
\* actual = 0 and precision = 0; an empty true list with M predicted spans gives
\* spurious = M and nothing else, so possible = 0 and recall = 0.
C3_OneSideEmpty ==
    (Scored /\ AllInTags(true_doc) /\ AllInTags(pred_doc)) =>
        \A s \in Schemes :
            LET r == tmp_results[s]
                pr == compute_precision_recall(r, s \in {"partial", "ent_type"})
            IN  /\ pred_doc = <<>> =>
                      /\ OnlyCounter(r, "missed", Len(true_doc))
                      /\ r.actual = 0
                      /\ FracEq(pr.precision, Zero)
                /\ true_doc = <<>> =>
                      /\ OnlyCounter(r, "spurious", Len(pred_doc))
                      /\ r.possible = 0
                      /\ FracEq(pr.recall, Zero)

\* A corpus whose first document has two true spans and no prediction, and
\* whose second has two predictions and no true span.
C3_Witness ==
    /\ pc = "returned"
    /\ Len(true) = 2
    /\ Len(true[1]) = 2 /\ pred[1] = <<>>
    /\ true[2] = <<>> /\ Len(pred[2]) = 2
    /\ AllInTags(true[1]) /\ AllInTags(pred[2])
    /\ returned[1]["strict"].missed = 2
    /\ returned[1]["strict"].spurious = 2

\* C4: spans whose label is not in tags take no part in matching: the document
\* scores exactly as the document with those spans removed from both sides,
\* overall and per label.
C4_LabelFiltering ==
    Scored =>
        LET without == compute_metrics(InTags(true_doc), InTags(pred_doc), tags)
        IN  /\ tmp_results = without.evaluation
            /\ tmp_agg_results = without.evaluation_agg_entities_type

\* A document with a scored and an unscored span on each side.
C4_Witness ==
    /\ Scored
    /\ Len(true_doc) = 2 /\ Len(InTags(true_doc)) = 1
    /\ Len(pred_doc) = 2 /\ Len(InTags(pred_doc)) = 1

Overlaps(t, p) == t.start <= p.end /\ p.start <= t.end
SameOffsets(t, p) == t.start = p.start /\ t.end = p.end

\* One outcome per scheme: strict, ent_type, partial, exact get one count each
\* in the named counter and no other count.
Outcome(ev, m_strict, m_ent_type, m_partial, m_exact) ==
    /\ OnlyCounter(ev["strict"], m_strict, 1)
    /\ OnlyCounter(ev["ent_type"], m_ent_type, 1)
    /\ OnlyCounter(ev["partial"], m_partial, 1)
    /\ OnlyCounter(ev["exact"], m_exact, 1)

OnePair ==
    /\ Scored
    /\ Len(true_doc) = 1 /\ Len(pred_doc) = 1
    /\ AllInTags(true_doc) /\ AllInTags(pred_doc)
    /\ Overlaps(true_doc[1], pred_doc[1])

\* C5: a document of one true span t and one predicted span p that overlap
\* records one outcome per scheme and no missed or spurious. Same offsets,
\* different label (IV): strict and ent_type incorrect, partial and exact correct.
\* Different offsets, same label (V): strict incorrect, ent_type correct, partial
\* partial, exact incorrect. Different offsets, different label (VI): as V with
\* ent_type incorrect.
C5_OnePairScenarios ==
    OnePair =>
        LET t == true_doc[1]
            p == pred_doc[1]
        IN  /\ (SameOffsets(t, p) /\ t.label # p.label) =>
                  Outcome(tmp_results, "incorrect", "incorrect", "correct", "correct")
            /\ (~SameOffsets(t, p) /\ t.label = p.label) =>
                  Outcome(tmp_results, "incorrect", "correct", "partial", "incorrect")
            /\ (~SameOffsets(t, p) /\ t.label # p.label) =>
                  Outcome(tmp_results, "incorrect", "incorrect", "partial", "incorrect")

\* A corpus whose first document is a scenario IV pair and whose second is a
\* scenario VI pair.
C5_Witness ==
    /\ pc = "returned"
    /\ Len(true) = 2
    /\ \A i \in 1..2 :
          /\ Len(true[i]) = 1 /\ Len(pred[i]) = 1
          /\ AllInTags(true[i]) /\ AllInTags(pred[i])
          /\ Overlaps(true[i][1], pred[i][1])
          /\ true[i][1].label # pred[i][1].label
    /\ SameOffsets(true[1][1], pred[1][1])
    /\ ~SameOffsets(true[2][1], pred[2][1])

\* C6: when the numbers of true and predicted documents differ, evaluate() raises
\* before any document is scored: nothing is returned and the running totals,
\* overall and per label, keep their values, then and afterwards.
C6_LengthMismatch ==
    [][/\ (pc = "constructed" /\ Len(true) # Len(pred)) =>
              /\ pc' = "raised"
              /\ idx' = idx
              /\ results' = results
              /\ evaluation_agg_entities_type' = evaluation_agg_entities_type
              /\ returned' = <<>>
       /\ pc = "raised" => UNCHANGED vars]_vars

\* The call raised on a corpus that has documents on both sides.
C6_Witness ==
    /\ pc = "raised"
    /\ Len(true) = 2
    /\ Len(pred) = 1
    /\ Len(true[1]) = 1 /\ Len(pred[1]) = 1

\* C7: each predicted span with a label in tags contributes exactly one outcome
\* to each scheme, so in every scheme of a document actual is the number of
\* predicted spans with a label in tags.
C7_OneOutcomePerPrediction ==
    Scored => \A s \in Schemes : tmp_results[s].actual = Len(InTags(pred_doc))

\* C8: in every scheme of a document the predictions scored against true spans
\* (correct + incorrect + partial) are at most the true spans with a label in
\* tags.
C8_TrueSpanUsedOnce ==
    Scored =>
        \A s \in Schemes :
            tmp_results[s].correct + tmp_results[s].incorrect + tmp_results[s].partial
                <= Len(InTags(true_doc))

Perms(q) ==
    {[i \in DOMAIN q |-> q[f[i]]] :
        f \in {g \in [DOMAIN q -> DOMAIN q] : \A i, j \in DOMAIN q : g[i] = g[j] => i = j}}

\* C9: a document scores the same, overall and per label, however its true
\* spans and its predicted spans are ordered in the input lists.
C9_OrderIndependent ==
    Scored =>
        \A t \in Perms(true_doc), p \in Perms(pred_doc) :
            LET other == compute_metrics(t, p, tags)
            IN  /\ other.evaluation = tmp_results
                /\ other.evaluation_agg_entities_type = tmp_agg_results

TagsDistinct == \A i, j \in DOMAIN tags : tags[i] = tags[j] => i = j

RECURSIVE SumOverLabels(_, _, _, _)
SumOverLabels(agg, lbls, s, c) ==
    IF lbls = {} THEN 0
    ELSE LET e == CHOOSE x \in lbls : TRUE
         IN  agg[e][s][c] + SumOverLabels(agg, lbls \ {e}, s, c)

SameCounters(a, b) ==
    \A s \in Schemes, c \in Counters :
        /\ a[1][s][c] = b[1][s][c]
        /\ \A e \in DOMAIN a[2] : a[2][e][s][c] = b[2][e][s][c]

\* C11: a second evaluate() call on the same Evaluator, inputs unchanged,
\* returns the overall and per-label counters the call before it returned.
C11_SecondCallSame ==
    [][(calls >= 2 /\ pc = "loop" /\ pc' = "returned") =>
          SameCounters(returned', returned)]_vars

====
